---- MODULE Spec2Model ----
(***************************************************************************)
(* Model of the climate-spiral program (src/main.py).                      *)
(*                                                                         *)
(* Floating-point numbers are modelled as fixed-point integers with three  *)
(* decimal digits (1.5 is 1500); products and quotients round towards      *)
(* minus infinity.  Angles are in milli-radians.                           *)
(***************************************************************************)
EXTENDS Integers, Sequences, FiniteSets

(* ------------------------------ bounds -------------------------------- *)

\* longest input series (rows of the csv file)
MaxLen == 25
\* largest |num_segments| passed to segment_circle by a direct caller
MaxCount == 13

(* ------------------------- fixed-point numbers ------------------------ *)

Scale == 10 * 10 * 10

FMul(a, b) == (a * b) \div Scale

FDiv(a, b) == (a * Scale) \div b

\* np.pi, in milli-radians
pi == 3141

TwoPi == 2 * pi

HalfPi == pi \div 2

\* cosine of an angle of the first quadrant (Taylor series, fixed point)
CosQ(x) ==
    LET x2 == FMul(x, x)
        t2 == (Scale * x2) \div (2 * Scale)
        t3 == (t2 * x2) \div (12 * Scale)
        t4 == (t3 * x2) \div (30 * Scale)
        t5 == (t4 * x2) \div (56 * Scale)
        t6 == (t5 * x2) \div (90 * Scale)
    IN  Scale - t2 + t3 - t4 + t5 - t6

\* sine of an angle of the first quadrant (Taylor series, fixed point)
SinQ(x) ==
    LET x2 == FMul(x, x)
        s2 == (x * x2) \div (6 * Scale)
        s3 == (s2 * x2) \div (20 * Scale)
        s4 == (s3 * x2) \div (42 * Scale)
        s5 == (s4 * x2) \div (72 * Scale)
        s6 == (s5 * x2) \div (110 * Scale)
    IN  x - s2 + s3 - s4 + s5 - s6

\* np.cos on [0, 2*pi)
cos(x) ==
    IF x <= HalfPi THEN CosQ(x)
    ELSE IF x <= pi THEN 0 - CosQ(pi - x)
    ELSE IF x <= pi + HalfPi THEN 0 - CosQ(x - pi)
    ELSE CosQ(TwoPi - x)

\* np.sin on [0, 2*pi)
sin(x) ==
    IF x <= HalfPi THEN SinQ(x)
    ELSE IF x <= pi THEN SinQ(pi - x)
    ELSE IF x <= pi + HalfPi THEN 0 - SinQ(x - pi)
    ELSE 0 - SinQ(TwoPi - x)

\* np.rad2deg, to whole degrees
rad2deg(x) == (x * 180) \div pi

(* --------------------------- segment_circle --------------------------- *)

\* np.arange(n): 0, 1, ..., n-1; empty when n <= 0
arange(n) == [k \in 1..(IF n > 0 THEN n ELSE 0) |-> k - 1]

\* a variant whose angles start one segment late (np.arange(1, n+1))
segment_circle_late(num_segments) ==
    IF num_segments = 0
    THEN [exc |-> "ZeroDivisionError", value |-> <<>>]
    ELSE LET segment_rad == TwoPi \div num_segments
             segment_rads == [k \in DOMAIN arange(num_segments) |->
                                 segment_rad * (arange(num_segments)[k] + 1)]
         IN  [exc |-> "none",
              value |-> [k \in DOMAIN segment_rads |->
                           <<cos(segment_rads[k]), sin(segment_rads[k]),
                             segment_rads[k]>>]]

\* segment_circle(num_segments): the rows (x, y, angle) it returns, or the
\* exception it raises.  2*np.pi/0 divides a Python float by the int 0.
segment_circle(num_segments) ==
    IF num_segments = 0
    THEN [exc |-> "ZeroDivisionError", value |-> <<>>]
    ELSE LET segment_rad == TwoPi \div num_segments
             segment_rads == [k \in DOMAIN arange(num_segments) |->
                                 segment_rad * arange(num_segments)[k]]
             coordX == [k \in DOMAIN segment_rads |-> cos(segment_rads[k])]
             coordY == [k \in DOMAIN segment_rads |-> sin(segment_rads[k])]
         IN  [exc |-> "none",
              value |-> [k \in DOMAIN segment_rads |->
                           <<coordX[k], coordY[k], segment_rads[k]>>]]

(* --------------------------- constants of main ------------------------ *)

\* r = 7.0
r == 7 * Scale

\* a variant with the labels in calendar order
months_calendar == <<"Jan", "Feb", "Mar", "Apr", "May", "Jun",
                     "Jul", "Aug", "Sep", "Oct", "Nov", "Dec">>

months == <<"Mar", "Feb", "Jan", "Dec", "Nov", "Oct",
            "Sep", "Aug", "Jul", "Jun", "May", "Apr">>

\* month index lookup table
month_idx == <<2, 1, 0, 11, 10, 9, 8, 7, 6, 5, 4, 3>>

\* radius = r + 0.4
radius == r + 400

\* a variant with the scale inverted (3.6 / r)
r_factor_inverted == FDiv(3600, r)

\* r_factor = r / 3.6
r_factor == FDiv(r, 3600)

\* a variant that uses the position in the year directly, without the table
SegIndexDirect(i) == i % 12

\* a variant that wraps the sample position at 11 instead of 12
SegIndexWrap11(i) == month_idx[(i % 11) + 1]

\* the segment selected for sample i: month_idx[i % 12]
SegIndex(i) == month_idx[(i % 12) + 1]

\* row k (0-based) of a segment array, as numpy indexes it
Row(points, k) == points[k + 1]

(* ------------------------------ inputs -------------------------------- *)

\* anomaly values (deg C, fixed point) the input rows are drawn from
Values == <<0 - 400, 0, 1000, 1500>>

\* input series: row i holds Values[(a + (i % m)) % 4], so a series is
\* constant (m = 1) or repeats with a period dividing 12 (2, 3) or not (5)
Gen(n, a, m) == [k \in 1..n |-> Values[((a + ((k - 1) % m)) % Len(Values)) + 1]]

Series == {Gen(n, a, m) : n \in 0..MaxLen, a \in 0..(Len(Values) - 1), m \in {1, 2, 3, 5}}

\* what source_data_download.csv can be
FileStates == {"ok", "missing", "unparseable", "no_time_column", "bad_date",
               "no_anomaly_column", "bad_value"}

Entries == {"script", "main", "segment_circle"}

VARIABLES
    entry,        \* what is run: the script, main(), or segment_circle(arg)
    arg,          \* num_segments of a direct call of segment_circle
    result,       \* what that call returned
    file,         \* state of source_data_download.csv
    data,         \* its anomaly column when it is readable
    images_dir,   \* whether the directory images/ exists
    pc,           \* the statement about to run
    exc,          \* the exception that ended the run, or "none"
    exitcode,     \* exit code of the script, -1 while there is none
    month_points, df, x_orig, x_vals, y_vals, i, r_pos,
    x_unit_r, y_unit_r, x_r, y_r, pts, segments,
    lc, circles, texts, j, angle, added,
    shown,        \* number of times plt.show() ran
    saved,        \* number of times images/plotcircles.png was written
    printed,      \* lines printed to standard output
    trace         \* the steps of main that completed, in order

vars == <<entry, arg, result, file, data, images_dir, pc, exc, exitcode,
          month_points, df, x_orig, x_vals, y_vals, i, r_pos,
          x_unit_r, y_unit_r, x_r, y_r, pts, segments,
          lc, circles, texts, j, angle, added, shown, saved, printed, trace>>

locals == <<month_points, df, x_orig, x_vals, y_vals, i, r_pos,
            x_unit_r, y_unit_r, x_r, y_r, pts, segments,
            lc, circles, texts, j, angle, added>>

env == <<entry, arg, file, data, images_dir>>

Init ==
    /\ entry \in Entries
    /\ arg \in (IF entry = "segment_circle" THEN (0 - MaxCount)..MaxCount ELSE {12})
    /\ file \in (IF entry = "segment_circle" THEN {"ok"} ELSE FileStates)
    /\ data \in (IF entry # "segment_circle" /\ file = "ok" THEN Series ELSE {<<>>})
    /\ images_dir \in (IF entry = "main" /\ file = "ok" THEN BOOLEAN ELSE {TRUE})
    /\ pc = (CASE entry = "script" -> "module"
               [] entry = "main" -> "L60"
               [] entry = "segment_circle" -> "call")
    /\ result = [exc |-> "none", value |-> <<>>]
    /\ exc = "none"
    /\ exitcode = 0 - 1
    /\ month_points = <<>>
    /\ df = <<>>
    /\ x_orig = <<>>
    /\ x_vals = <<>>
    /\ y_vals = <<>>
    /\ i = 0
    /\ r_pos = 0
    /\ x_unit_r = 0
    /\ y_unit_r = 0
    /\ x_r = 0
    /\ y_r = 0
    /\ pts = <<>>
    /\ segments = <<>>
    /\ lc = [segments |-> <<>>, array |-> <<>>]
    /\ circles = <<>>
    /\ texts = <<>>
    /\ j = 0
    /\ angle = 0
    /\ added = FALSE
    /\ shown = 0
    /\ saved = 0
    /\ printed = <<>>
    /\ trace = <<>>

(* ------------------------------ the script ---------------------------- *)

\* Running src/main.py: the imports and the four def statements; the file
\* ends after the body of main and calls nothing.
RunModule ==
    /\ pc = "module"
    /\ pc' = "exit"
    /\ exitcode' = 0
    /\ UNCHANGED <<env, result, exc, locals, shown, saved, printed, trace>>

\* A direct call segment_circle(arg)
CallSegmentCircle ==
    /\ pc = "call"
    /\ result' = segment_circle(arg)
    /\ exc' = segment_circle(arg).exc
    /\ pc' = IF segment_circle(arg).exc = "none" THEN "returned" ELSE "raised"
    /\ UNCHANGED <<env, exitcode, locals, shown, saved, printed, trace>>

(* -------------------------------- main -------------------------------- *)

\* lines 60-66: the constants, and month_points = segment_circle(len(months))
Setup ==
    /\ pc = "L60"
    /\ month_points' = segment_circle(Len(months)).value
    /\ pc' = "L68"
    /\ trace' = Append(trace, "segment_circle")
    /\ UNCHANGED <<env, result, exc, exitcode, df, x_orig, x_vals, y_vals, i,
                   r_pos, x_unit_r, y_unit_r, x_r, y_r, pts, segments, lc,
                   circles, texts, j, angle, added, shown, saved, printed>>

\* a variant of the load that swallows the failure and carries on with no rows
LoadDataLenient ==
    /\ pc = "L68"
    /\ df' = IF file \in {"missing", "unparseable"} THEN <<>> ELSE data
    /\ pc' = "L69"
    /\ trace' = Append(trace, "load")
    /\ UNCHANGED <<env, result, exc, exitcode, month_points, x_orig, x_vals, y_vals,
                   i, r_pos, x_unit_r, y_unit_r, x_r, y_r, pts, segments, lc,
                   circles, texts, j, angle, added, shown, saved, printed>>

\* line 68: df = load_data(), pd.read_csv("source_data_download.csv")
LoadData ==
    /\ pc = "L68"
    /\ IF file = "missing"
       THEN /\ exc' = "FileNotFoundError"
            /\ pc' = "raised"
            /\ UNCHANGED <<df, trace>>
       ELSE IF file = "unparseable"
       THEN /\ exc' = "ParserError"
            /\ pc' = "raised"
            /\ UNCHANGED <<df, trace>>
       ELSE /\ df' = data
            /\ pc' = "L69"
            /\ trace' = Append(trace, "load")
            /\ UNCHANGED exc
    /\ UNCHANGED <<env, result, exitcode, month_points, x_orig, x_vals, y_vals,
                   i, r_pos, x_unit_r, y_unit_r, x_r, y_r, pts, segments, lc,
                   circles, texts, j, angle, added, shown, saved, printed>>

\* line 69: df['Time'] = pd.to_datetime(df['Time'])
ParseTime ==
    /\ pc = "L69"
    /\ IF file = "no_time_column"
       THEN exc' = "KeyError" /\ pc' = "raised"
       ELSE IF file = "bad_date"
       THEN exc' = "ValueError" /\ pc' = "raised"
       ELSE pc' = "L72" /\ UNCHANGED exc
    /\ UNCHANGED <<env, result, exitcode, locals, shown, saved, printed, trace>>

\* lines 72-77: r_factor, x_orig = anomalies + 1.5, the empty lists
Offset ==
    /\ pc = "L72"
    /\ IF file = "no_anomaly_column"
       THEN exc' = "KeyError" /\ pc' = "raised" /\ UNCHANGED <<x_orig, x_vals, y_vals, i>>
       ELSE IF file = "bad_value"
       THEN exc' = "TypeError" /\ pc' = "raised" /\ UNCHANGED <<x_orig, x_vals, y_vals, i>>
       ELSE /\ x_orig' = [k \in DOMAIN df |-> df[k] + 1500]
            /\ x_vals' = <<>>
            /\ y_vals' = <<>>
            /\ i' = 0
            /\ pc' = "L78"
            /\ UNCHANGED exc
    /\ UNCHANGED <<env, result, exitcode, month_points, df, r_pos, x_unit_r,
                   y_unit_r, x_r, y_r, pts, segments, lc, circles, texts, j,
                   angle, added, shown, saved, printed, trace>>

\* lines 78-83: one iteration of the transform loop
LoopBody ==
    /\ pc = "L78"
    /\ i < Len(x_orig)
    /\ LET rp == FMul(x_orig[i + 1], r_factor)
           ux == Row(month_points, SegIndex(i))[1]
           uy == Row(month_points, SegIndex(i))[2]
       IN  /\ r_pos' = rp
           /\ x_unit_r' = ux
           /\ y_unit_r' = uy
           /\ x_r' = FMul(rp, ux)
           /\ y_r' = FMul(rp, uy)
           /\ x_vals' = Append(x_vals, FMul(rp, ux))
           /\ y_vals' = Append(y_vals, FMul(rp, uy))
    /\ i' = i + 1
    /\ UNCHANGED <<env, result, exc, exitcode, pc, month_points, df, x_orig, pts,
                   segments, lc, circles, texts, j, angle, added, shown, saved,
                   printed, trace>>

\* pts[:-1] and pts[1:]
ButLast(s) == SubSeq(s, 1, Len(s) - 1)

Rest(s) == SubSeq(s, 2, Len(s))

\* np.concatenate([a, b], axis=1) of two arrays of points
Concat1(a, b) == [k \in 1..Len(a) |-> <<a[k], b[k]>>]

\* a variant that pairs every point with itself (pts[:], pts[:])
MakeSegmentsAll(p) == Concat1(p, p)

\* line 87: segments = np.concatenate([pts[:-1], pts[1:]], axis=1)
MakeSegments(p) == Concat1(ButLast(p), Rest(p))

\* lines 78, 86-87: the loop ends; pts and segments
LoopExit ==
    /\ pc = "L78"
    /\ i >= Len(x_orig)
    /\ pts' = [k \in 1..Len(x_vals) |-> <<x_vals[k], y_vals[k]>>]
    /\ segments' = MakeSegments(pts')
    /\ pc' = "L90"
    /\ trace' = Append(trace, "transform")
    /\ UNCHANGED <<env, result, exc, exitcode, month_points, df, x_orig, x_vals,
                   y_vals, i, r_pos, x_unit_r, y_unit_r, x_r, y_r, lc, circles,
                   texts, j, angle, added, shown, saved, printed>>

\* lines 90-112: the line collection, the figure, the circles and the texts
Draw ==
    /\ pc = "L90"
    /\ lc' = [segments |-> segments, array |-> x_orig]
    /\ circles' = << [name |-> "circle", radius |-> r],
                     [name |-> "circle_2", radius |-> FMul(r_factor, 2500)],
                     [name |-> "circle_1_5", radius |-> FMul(r_factor, 3000)] >>
    /\ texts' = << [x |-> 0, y |-> FMul(r_factor, 2500), s |-> "1.5C", rotation |-> 0],
                   [x |-> 0, y |-> FMul(r_factor, 3000), s |-> "2.0C", rotation |-> 0],
                   [x |-> 0, y |-> r + 1400,
                    s |-> "Global temperature change (1850-2021)", rotation |-> 0] >>
    /\ j' = 0
    /\ pc' = "L115"
    /\ UNCHANGED <<env, result, exc, exitcode, month_points, df, x_orig, x_vals,
                   y_vals, i, r_pos, x_unit_r, y_unit_r, x_r, y_r, pts, segments,
                   angle, added, shown, saved, printed, trace>>

\* lines 115-119: one month legend
Legend ==
    /\ pc = "L115"
    /\ j < Len(months)
    /\ x_unit_r' = Row(month_points, j)[1]
    /\ y_unit_r' = Row(month_points, j)[2]
    /\ angle' = Row(month_points, j)[3] - FMul(500, pi)
    /\ texts' = Append(texts, [x |-> FMul(radius, x_unit_r'),
                               y |-> FMul(radius, y_unit_r'),
                               s |-> months[j + 1],
                               rotation |-> rad2deg(angle')])
    /\ j' = j + 1
    /\ UNCHANGED <<env, result, exc, exitcode, pc, month_points, df, x_orig, x_vals,
                   y_vals, i, r_pos, x_r, y_r, pts, segments, lc, circles, added,
                   shown, saved, printed, trace>>

\* lines 122-128: add the collection, autoscale, axis off, plt.show()
Show ==
    /\ pc = "L115"
    /\ j >= Len(months)
    /\ added' = TRUE
    /\ shown' = shown + 1
    /\ pc' = "L131"
    /\ trace' = Append(trace, "render")
    /\ UNCHANGED <<env, result, exc, exitcode, month_points, df, x_orig, x_vals,
                   y_vals, i, r_pos, x_unit_r, y_unit_r, x_r, y_r, pts, segments,
                   lc, circles, texts, j, angle, saved, printed>>

\* line 131: local_save(fig), fig.savefig("images/plotcircles.png")
LocalSave ==
    /\ pc = "L131"
    /\ IF images_dir
       THEN /\ saved' = saved + 1
            /\ pc' = "L133"
            /\ trace' = Append(trace, "save")
            /\ UNCHANGED exc
       ELSE /\ exc' = "FileNotFoundError"
            /\ pc' = "raised"
            /\ UNCHANGED <<saved, trace>>
    /\ UNCHANGED <<env, result, exitcode, locals, shown, printed>>

\* line 133: print("Completed plot.")
PrintDone ==
    /\ pc = "L133"
    /\ printed' = Append(printed, "Completed plot.")
    /\ pc' = "returned"
    /\ UNCHANGED <<env, result, exc, exitcode, locals, shown, saved, trace>>

Next ==
    \/ RunModule
    \/ CallSegmentCircle
    \/ Setup
    \/ LoadData
    \/ ParseTime
    \/ Offset
    \/ LoopBody
    \/ LoopExit
    \/ Draw
    \/ Legend
    \/ Show
    \/ LocalSave
    \/ PrintDone

Spec == Init /\ [][Next]_vars

(* ------------------------------ properties ---------------------------- *)

Max(a, b) == IF a >= b THEN a ELSE b

\* the direction (x, y) of row k (0-based) of month_points
Dir(k) == <<month_points[k + 1][1], month_points[k + 1][2]>>

\* the lookup table as the specification states it
T == <<2, 1, 0, 11, 10, 9, 8, 7, 6, 5, 4, 3>>

\* the names of the calendar months, January first
Calendar == <<"Jan", "Feb", "Mar", "Apr", "May", "Jun",
              "Jul", "Aug", "Sep", "Oct", "Nov", "Dec">>

\* the point the specification prescribes for value v at direction d:
\* ((v + c) * s * ux, (v + c) * s * uy) with c = 1.5 and s = 7 / 3.6
SpecPoint(v, d) ==
    <<FMul(FMul(v + 1500, FDiv(7000, 3600)), d[1]),
      FMul(FMul(v + 1500, FDiv(7000, 3600)), d[2])>>

\* C1: for count > 0, segment_circle(count) returns exactly count triples,
\* the angle of triple j is j * (2*pi/count), the angles start at 0, increase
\* strictly, and the last one is below a full turn.
C1_SegmentCircleAngles ==
    (entry = "segment_circle" /\ arg > 0 /\ pc # "call") =>
        /\ pc = "returned"
        /\ Len(result.value) = arg
        /\ \A k \in 1..arg : result.value[k][3] = (k - 1) * (TwoPi \div arg)
        /\ result.value[1][3] = 0
        /\ \A k \in 1..(arg - 1) : result.value[k][3] < result.value[k + 1][3]
        /\ result.value[arg][3] < TwoPi

C1_Witness ==
    entry = "segment_circle" /\ arg = 12 /\ pc = "returned" /\ Len(result.value) = 12

\* C2: for count <= 0, segment_circle(count) ends in a failure and returns
\* no array.
C2_NonPositiveCountFails ==
    (entry = "segment_circle" /\ arg <= 0 /\ pc # "call") =>
        (pc = "raised" /\ exc # "none")

\* C3: the point computed for sample i is ((v_i + c)*s*ux, (v_i + c)*s*uy)
\* with c = 1.5, s = 7/3.6 and (ux, uy) the direction selected for sample i.
C3_PointFormula ==
    entry = "main" =>
        /\ Len(x_vals) = Len(y_vals)
        /\ pc = "L78" => Len(x_vals) = i
        /\ \A k \in 1..Len(x_vals) :
              <<x_vals[k], y_vals[k]>> = SpecPoint(data[k], Dir(SegIndex(k - 1)))

C3_Witness ==
    entry = "main" /\ pc = "L90" /\ Len(x_vals) = MaxLen /\ data[2] # data[1]

\* C4: the direction used for sample i is the segment at index T[i mod 12],
\* looked up through the table and not taken as segment i mod 12 (the two
\* differ wherever T[k] # k); sample 0 uses segment 2, not segment 0.
C4_Remap ==
    (entry = "main" /\ pc = "L78" /\ i > 0) =>
        /\ <<x_unit_r, y_unit_r>> = Dir(T[((i - 1) % 12) + 1])
        /\ T[((i - 1) % 12) + 1] # (i - 1) % 12 =>
              <<x_unit_r, y_unit_r>> # Dir((i - 1) % 12)
        /\ <<x_vals[1], y_vals[1]>> = SpecPoint(data[1], Dir(2))
        /\ <<x_vals[1], y_vals[1]>> # SpecPoint(data[1], Dir(0))

C4_Witness ==
    entry = "main" /\ pc = "L78" /\ i = 1 /\ <<x_unit_r, y_unit_r>> = Dir(2)

\* C5: n input values give exactly n points, point i from sample i, and
\* max(n-1, 0) line segments, segment k joining point k to point k+1; the
\* transform of a readable file does not fail.
C5_Counts ==
    /\ (entry = "main" /\ pc \in {"L90", "L115", "L131", "L133", "returned"}) =>
          /\ Len(pts) = Len(data)
          /\ \A k \in 1..Len(pts) : pts[k] = SpecPoint(data[k], Dir(SegIndex(k - 1)))
          /\ Len(segments) = Max(Len(data) - 1, 0)
          /\ \A k \in 1..Len(segments) : segments[k] = <<pts[k], pts[k + 1]>>
    /\ (entry = "main" /\ file = "ok" /\ pc = "raised") =>
          Len(segments) = Max(Len(data) - 1, 0) /\ Len(pts) = Len(data) /\ added

C5_Witness ==
    entry = "main" /\ pc = "L90" /\ Len(data) = 1 /\ Len(pts) = 1 /\ segments = <<>>

\* C6: running the script ends with exit code 0 when the run succeeds and
\* with a non-zero exit code when the input file is missing or malformed.
C6_ExitCode ==
    (entry = "script" /\ pc = "exit") => (exitcode = 0 <=> file = "ok")

\* C7: samples i and j with i mod 12 = j mod 12 and equal values have the
\* same point; for a constant series point i+12 equals point i.
C7_Periodic ==
    entry = "main" =>
        \A a, b \in 1..Len(x_vals) :
            ((a - 1) % 12 = (b - 1) % 12 /\ data[a] = data[b]) =>
                (x_vals[a] = x_vals[b] /\ y_vals[a] = y_vals[b])

C7_Witness ==
    /\ entry = "main" /\ pc = "L90" /\ Len(x_vals) >= 24
    /\ \A k \in 1..Len(data) : data[k] = data[1]
    /\ \A k \in 1..12 : pts[k + 12] = pts[k]

\* C8: the image is written at most once, only after the load, the
\* transform and the rendering have completed, in that order; a failing step
\* ends the run without a retry, without the image and without the message.
C8_Order ==
    entry = "main" =>
        /\ saved <= 1
        /\ \E n \in 0..5 :
              trace = SubSeq(<<"segment_circle", "load", "transform", "render", "save">>, 1, n)
        /\ saved = 1 =>
              /\ df = data /\ file = "ok"
              /\ Len(pts) = Len(data)
              /\ added /\ shown = 1 /\ Len(texts) = 3 + Len(months)
        /\ printed # <<>> => (saved = 1 /\ Len(printed) = 1)
        /\ file # "ok" => (saved = 0 /\ printed = <<>> /\ shown = 0)
        /\ exc # "none" => (pc = "raised" /\ saved = 0 /\ printed = <<>>)

C8_Witness ==
    entry = "main" /\ pc = "returned" /\ saved = 1 /\ Len(data) > 12

\* C9: the table is a permutation of 0..11, the label drawn at segment T[k]
\* is the name of calendar month k, and every sample i is plotted along the
\* direction that carries the label of calendar month i mod 12.
C9_LabelsMatch ==
    /\ {month_idx[k] : k \in 1..12} = 0..11
    /\ (entry = "main" /\ pc \in {"L131", "L133", "returned"}) =>
          /\ \A k \in 0..11 :
                /\ texts[3 + T[k + 1] + 1].s = Calendar[k + 1]
                /\ texts[3 + T[k + 1] + 1].x = FMul(radius, Dir(T[k + 1])[1])
                /\ texts[3 + T[k + 1] + 1].y = FMul(radius, Dir(T[k + 1])[2])
          /\ \A n \in 1..Len(pts) :
                \E g \in 0..11 :
                    /\ texts[3 + g + 1].s = Calendar[((n - 1) % 12) + 1]
                    /\ pts[n] = SpecPoint(data[n], Dir(g))

C9_Witness ==
    entry = "main" /\ pc = "returned" /\ Len(pts) >= 12 /\ texts[6].s = "Jan"

\* C10: the circle and label '1.5' are at radius (1.5 + 1.5)*r/3.6 and the
\* circle and label '2.0' at radius (2.0 + 1.5)*r/3.6, the radii at which the
\* transform places samples of those anomalies.
C10_ReferenceCircles ==
    (entry = "main" /\ Len(texts) >= 3) =>
        /\ \A n \in 1..Len(texts) :
              /\ texts[n].s = "1.5C" => texts[n].y = FMul(1500 + 1500, r_factor)
              /\ texts[n].s = "2.0C" => texts[n].y = FMul(2000 + 1500, r_factor)
        /\ \E n \in 1..Len(circles) : circles[n].radius = FMul(1500 + 1500, r_factor)
        /\ \E n \in 1..Len(circles) : circles[n].radius = FMul(2000 + 1500, r_factor)

====
